---- MODULE Spec2Model ----
(***************************************************************************)
(* A model of the vbsp decode pipeline: BspFile::new / BspFile::get_lump   *)
(* (src/src/bspfile.rs), GameLumpHeader::find and the static-prop record   *)
(* readers (src/src/data/game.rs), and the binrw-to-BspError conversion    *)
(* (src/src/error.rs).                                                     *)
(*                                                                         *)
(* Machine integers keep their exact width.  A u32 / i32 is the sequence   *)
(* of its 4 bytes, least significant first, a usize (64-bit target) the    *)
(* sequence of its 8 bytes; arithmetic is done bytewise with carry, so     *)
(* that wrap-around and overflow are computed, not assumed.                *)
(***************************************************************************)
EXTENDS Integers, Sequences, FiniteSets, TLC

----------------------------------------------------------------------------
(* Machine integers                                                        *)

Pow256(i) == IF i = 0 THEN 1 ELSE IF i = 1 THEN 256 ELSE IF i = 2 THEN 65536 ELSE 16777216

\* the w little-endian bytes of the natural number n < 2^31
LE(n, w) == [i \in 1..w |-> IF i <= 4 THEN (n \div Pow256(i - 1)) % 256 ELSE 0]

U32(n) == LE(n, 4)

\* the two's-complement bytes of the integer n, -2^31 <= n < 2^31
I32(n) ==
    IF n >= 0 THEN LE(n, 4)
    ELSE LET m == (n + 2147483647) + 1 IN [LE(m, 4) EXCEPT ![4] = @ + 128]

\* carry out of byte i when adding a, b and the carry-in cin
CarryAt(a, b, cin, i) ==
    LET c[k \in 0..Len(a)] ==
            IF k = 0 THEN cin ELSE (a[k] + b[k] + c[k - 1]) \div 256
    IN c[i]

AddBytes(a, b, cin) ==
    [i \in 1..Len(a) |-> (a[i] + b[i] + CarryAt(a, b, cin, i - 1)) % 256]

NotBytes(a) == [i \in 1..Len(a) |-> 255 - a[i]]

IsNeg(a) == a[Len(a)] >= 128

IsZero(a) == \A i \in 1..Len(a) : a[i] = 0

\* unsigned comparison a <= b of two values of the same width
LeqU(a, b) ==
    \/ a = b
    \/ \E i \in 1..Len(a) :
          /\ a[i] < b[i]
          /\ \A j \in (i + 1)..Len(a) : a[j] = b[j]

\* the value of an unsigned quantity known to be below 2^24
ToNat(a) == a[1] + 256 * a[2] + 65536 * a[3]

FitsNat(a) == \A i \in 4..Len(a) : a[i] = 0

\* `x as usize` for x: u32 (zero extension) and x: i32 (sign extension)
U32AsUsize(a) == [i \in 1..8 |-> IF i <= 4 THEN a[i] ELSE 0]

I32AsUsize(a) == [i \in 1..8 |-> IF i <= 4 THEN a[i] ELSE IF IsNeg(a) THEN 255 ELSE 0]

\* x as u32 for x: u8, and a buffer length as usize
LenAsUsize(data) == LE(Len(data), 8)

\* usize + usize: the wrapped sum and whether it overflowed
UsizeAdd(a, b) ==
    [val |-> AddBytes(a, b, 0), overflow |-> CarryAt(a, b, 0, 8) = 1]

\* i32 + i32 and i32 - i32: the wrapped result and whether it overflowed
I32Add(a, b) ==
    LET s == AddBytes(a, b, 0)
    IN [val |-> s, overflow |-> IsNeg(a) = IsNeg(b) /\ IsNeg(s) # IsNeg(a)]

I32Sub(a, b) ==
    LET s == AddBytes(a, NotBytes(b), 1)
    IN [val |-> s, overflow |-> IsNeg(a) # IsNeg(b) /\ IsNeg(s) # IsNeg(a)]

----------------------------------------------------------------------------
(* State                                                                   *)

VARIABLES
    overflowChecks, \* build profile: integer overflow panics (debug) or wraps (release)
    backtrace,      \* binrw's derived readers attach a backtrace frame to a field's error
    data,           \* the source buffer, a sequence of bytes
    pc,             \* position of the caller
    bsp,            \* what BspFile::new returned
    log,            \* the get_lump calls made so far, each with its result
    header,         \* a parsed GameLumpHeader
    found,          \* what GameLumpHeader::find returned, with the span it resolved
    fields,         \* the logical values of one static-prop record
    version,        \* the version the extended layout is read with
    prop            \* what StaticPropLump::read_options returned, per layout

vars == <<overflowChecks, backtrace, data, pc, bsp, log, header, found,
          fields, version, prop>>

None == [tag |-> "None"]

Panic(msg) == [tag |-> "Panic", msg |-> msg]

Err(e) == [tag |-> "Err", err |-> e]

----------------------------------------------------------------------------
(* binrw errors and their conversion (src/src/error.rs)                    *)

IoError == [e |-> "Io"]

\* binrw::error::ContextExt::with_context, applied by a derived reader to the
\* error of one of its fields
WithContext(e) ==
    IF ~backtrace \/ e.e = "Backtrace" THEN e
    ELSE [e |-> "Backtrace", error |-> e]

\* impl From<binrw::Error> for BspError
FromBinrwError(e) ==
    IF e.e = "Io" THEN Err([kind |-> "IO"])
    ELSE IF e.e = "Custom" THEN
        IF e.err.type = "StringError" THEN Err([kind |-> "String"])
        ELSE IF e.err.type = "UnsupportedLumpVersion" THEN
            Err([kind |-> "LumpVersion",
                 lump_type |-> e.err.lump_type, version |-> e.err.version])
        ELSE Panic("unexpected custom error")
    ELSE Err([kind |-> "MalformedData", error |-> e])

----------------------------------------------------------------------------
(* slices                                                                  *)

\* a lenient slice: an end past the buffer is cut down to the buffer's length
SliceGet_clamp(buf, start, end) ==
    IF LeqU(start, end) /\ LeqU(start, LenAsUsize(buf))
    THEN LET stop == IF LeqU(end, LenAsUsize(buf)) THEN ToNat(end) ELSE Len(buf)
         IN [tag |-> "Some", start |-> ToNat(start), end |-> stop,
             bytes |-> SubSeq(buf, ToNat(start) + 1, stop)]
    ELSE None

\* <[u8]>::get(start..end) with start, end: usize
SliceGet(buf, start, end) ==
    IF LeqU(start, end) /\ LeqU(end, LenAsUsize(buf))
    THEN [tag |-> "Some", start |-> ToNat(start), end |-> ToNat(end),
          bytes |-> SubSeq(buf, ToNat(start) + 1, ToNat(end))]
    ELSE None

Drop(buf, n) == SubSeq(buf, n + 1, Len(buf))

----------------------------------------------------------------------------
(* Compressed-frame decoder (lzma_decompress_with_header)                  *)

FrameEnvelope == 9

\* the codec: the stream is a list of (count, byte) runs
RECURSIVE CodecDecode(_)
CodecDecode(stream) ==
    IF Len(stream) = 0 THEN [ok |-> TRUE, out |-> <<>>]
    ELSE IF Len(stream) = 1 \/ stream[1] = 0 THEN [ok |-> FALSE, out |-> <<>>]
    ELSE LET rest == CodecDecode(Drop(stream, 2))
         IN [ok |-> rest.ok,
             out |-> [i \in 1..stream[1] |-> stream[2]] \o rest.out]

lzma_decompress_with_header(raw, expected_length) ==
    IF Len(raw) < FrameEnvelope THEN Err([kind |-> "IO"])
    ELSE LET lzma_size   == SubSeq(raw, 1, 4)
             actual_size == SubSeq(raw, 5, 8)
             stream      == Drop(raw, FrameEnvelope)
             decoded     == CodecDecode(stream)
         IN IF U32AsUsize(lzma_size) # LenAsUsize(stream)
            THEN Err([kind |-> "UnexpectedCompressedLumpSize",
                      got |-> Len(stream), expected |-> lzma_size])
            ELSE IF U32AsUsize(actual_size) # expected_length
            THEN Err([kind |-> "UnexpectedUncompressedLumpSize",
                      got |-> actual_size, expected |-> expected_length])
            ELSE IF ~decoded.ok THEN Err([kind |-> "LumpDecompressError"])
            ELSE IF LenAsUsize(decoded.out) # expected_length
            THEN Err([kind |-> "UnexpectedUncompressedLumpSize",
                      got |-> Len(decoded.out), expected |-> expected_length])
            ELSE [tag |-> "Ok", bytes |-> decoded.out]

----------------------------------------------------------------------------
(* BspFile (src/src/bspfile.rs)                                            *)

NumLumps == 64

LumpType == 0..(NumLumps - 1)

LumpEntrySize == 16

EXPECTED_HEADER == [v |-> 86, b |-> 66, s |-> 83, p |-> 80]

EXPECTED_VERSION == 20

\* cursor.read_le::<Header>() at position 0: four u8 fields of a derived reader
ReadHeader(buf) ==
    IF Len(buf) < 4 THEN [ok |-> FALSE, err |-> WithContext(IoError)]
    ELSE [ok |-> TRUE, val |-> [v |-> buf[1], b |-> buf[2], s |-> buf[3], p |-> buf[4]]]

\* cursor.read_le::<u32>() at position pos
ReadU32(buf, pos) ==
    IF Len(buf) < pos + 4 THEN [ok |-> FALSE, err |-> IoError]
    ELSE [ok |-> TRUE, val |-> SubSeq(buf, pos + 1, pos + 4)]

ReadLumpEntry(buf, pos) ==
    [offset  |-> SubSeq(buf, pos + 1, pos + 4),
     length  |-> SubSeq(buf, pos + 5, pos + 8),
     ident   |-> SubSeq(buf, pos + 9, pos + 12),
     version |-> SubSeq(buf, pos + 13, pos + 16)]

\* cursor.read_le::<Directories>() at position pos: NumLumps entries in order
ReadDirectories(buf, pos) ==
    IF Len(buf) < pos + NumLumps * LumpEntrySize
    THEN [ok |-> FALSE, err |-> WithContext(IoError)]
    ELSE [ok |-> TRUE,
          val |-> [k \in LumpType |-> ReadLumpEntry(buf, pos + k * LumpEntrySize)]]

\* BspFile::new rejecting a header only when magic and version are both wrong
BspFile_new_and(buf) ==
    LET h == ReadHeader(buf)
        v == ReadU32(buf, 4)
        d == ReadDirectories(buf, 8)
    IN IF ~h.ok THEN FromBinrwError(h.err)
       ELSE IF ~v.ok THEN FromBinrwError(v.err)
       ELSE IF h.val # EXPECTED_HEADER /\ v.val # U32(EXPECTED_VERSION)
       THEN Err([kind |-> "UnexpectedHeader", header |-> h.val])
       ELSE IF ~d.ok THEN FromBinrwError(d.err)
       ELSE [tag |-> "Ok",
             file |-> [data |-> buf, directories |-> d.val, header |-> h.val]]

\* BspFile::new
BspFile_new(buf) ==
    LET h == ReadHeader(buf)
        v == ReadU32(buf, 4)
        d == ReadDirectories(buf, 8)
    IN IF ~h.ok THEN FromBinrwError(h.err)
       ELSE IF ~v.ok THEN FromBinrwError(v.err)
       ELSE IF h.val # EXPECTED_HEADER \/ v.val # U32(EXPECTED_VERSION)
       THEN Err([kind |-> "UnexpectedHeader", header |-> h.val])
       ELSE IF ~d.ok THEN FromBinrwError(d.err)
       ELSE [tag |-> "Ok",
             file |-> [data |-> buf, directories |-> d.val, header |-> h.val]]

\* get_lump copying the bytes it returns: Cow::Owned(raw_data.to_vec())
get_lump_to_vec(file, kind) ==
    LET lump  == file.directories[kind]
        start == U32AsUsize(lump.offset)
        end   == UsizeAdd(start, U32AsUsize(lump.length))
        raw   == SliceGet(file.data, start, end.val)
    IN IF end.overflow /\ overflowChecks THEN Panic("attempt to add with overflow")
       ELSE IF raw.tag = "None" THEN Err([kind |-> "LumpOutOfBounds", entry |-> lump])
       ELSE IF IsZero(lump.ident)
       THEN [tag |-> "Ok", cow |-> "Owned", start |-> raw.start, end |-> raw.end,
             bytes |-> raw.bytes]
       ELSE LET dec == lzma_decompress_with_header(raw.bytes, U32AsUsize(lump.ident))
            IN IF dec.tag = "Ok"
               THEN [tag |-> "Ok", cow |-> "Owned", start |-> raw.start,
                     end |-> raw.end, bytes |-> dec.bytes]
               ELSE dec

\* BspFile::get_lump
get_lump(file, kind) ==
    LET lump  == file.directories[kind]
        start == U32AsUsize(lump.offset)
        end   == UsizeAdd(start, U32AsUsize(lump.length))
        raw   == SliceGet(file.data, start, end.val)
    IN IF end.overflow /\ overflowChecks THEN Panic("attempt to add with overflow")
       ELSE IF raw.tag = "None" THEN Err([kind |-> "LumpOutOfBounds", entry |-> lump])
       ELSE IF IsZero(lump.ident)
       THEN [tag |-> "Ok", cow |-> "Borrowed", start |-> raw.start, end |-> raw.end,
             bytes |-> raw.bytes]
       ELSE LET dec == lzma_decompress_with_header(raw.bytes, U32AsUsize(lump.ident))
            IN IF dec.tag = "Ok"
               THEN [tag |-> "Ok", cow |-> "Owned", start |-> raw.start,
                     end |-> raw.end, bytes |-> dec.bytes]
               ELSE dec

----------------------------------------------------------------------------
(* Static-prop records (src/src/data/game.rs)                              *)

RECURSIVE BitAnd(_, _)
BitAnd(a, b) ==
    IF a = 0 \/ b = 0 THEN 0
    ELSE (a % 2) * (b % 2) + 2 * BitAnd(a \div 2, b \div 2)

\* StaticPropLumpFlags::all().bits() = 0x1FF, as u32 bytes
StaticPropLumpFlagsAll == <<255, 1, 0, 0>>

\* StaticPropLumpFlags::from_bits_truncate
from_bits_truncate(bits) ==
    [i \in 1..4 |-> BitAnd(bits[i], StaticPropLumpFlagsAll[i])]

\* impl From<StaticPropLumpFlagsV6> for StaticPropLumpFlags: v6.bits().into()
\* widens the u8 to a u32
FlagsFromV6(v6) == from_bits_truncate(<<v6, 0, 0, 0>>)

SolidTypeLast == 7

Vec3(buf, pos) ==
    <<SubSeq(buf, pos + 1, pos + 4), SubSeq(buf, pos + 5, pos + 8),
      SubSeq(buf, pos + 9, pos + 12)>>

SizeV6 == 64

SizeV10 == 72

SolidAt == 30

\* #[derive(BinRead)] struct StaticPropLumpV6, read at the start of buf
ReadStaticPropLumpV6(buf) ==
    IF Len(buf) <= SolidAt THEN [ok |-> FALSE, err |-> WithContext(IoError)]
    ELSE IF buf[SolidAt + 1] > SolidTypeLast
    THEN [ok |-> FALSE, err |-> WithContext([e |-> "NoVariantMatch"])]
    ELSE IF Len(buf) < SizeV6 THEN [ok |-> FALSE, err |-> WithContext(IoError)]
    ELSE [ok |-> TRUE, size |-> SizeV6,
          val |-> [origin            |-> Vec3(buf, 0),
                   angles            |-> Vec3(buf, 12),
                   prop_type         |-> SubSeq(buf, 25, 26),
                   first_leaf        |-> SubSeq(buf, 27, 28),
                   leaf_count        |-> SubSeq(buf, 29, 30),
                   solid             |-> buf[31],
                   flags             |-> buf[32],
                   skin              |-> SubSeq(buf, 33, 36),
                   fade_min_distance |-> SubSeq(buf, 37, 40),
                   fade_max_distance |-> SubSeq(buf, 41, 44),
                   lighting_origin   |-> Vec3(buf, 44),
                   forced_fade_scale |-> SubSeq(buf, 57, 60),
                   min_dx_level      |-> SubSeq(buf, 61, 62),
                   max_dx_level      |-> SubSeq(buf, 63, 64)]]

\* the extended layout read without the pad byte after solid
ReadStaticPropLumpV10_no_pad(buf) ==
    IF Len(buf) <= SolidAt THEN [ok |-> FALSE, err |-> WithContext(IoError)]
    ELSE IF buf[SolidAt + 1] > SolidTypeLast
    THEN [ok |-> FALSE, err |-> WithContext([e |-> "NoVariantMatch"])]
    ELSE IF Len(buf) < SizeV10 - 1 THEN [ok |-> FALSE, err |-> WithContext(IoError)]
    ELSE [ok |-> TRUE, size |-> SizeV10 - 1,
          val |-> [origin              |-> Vec3(buf, 0),
                   angles              |-> Vec3(buf, 12),
                   prop_type           |-> SubSeq(buf, 25, 26),
                   first_leaf          |-> SubSeq(buf, 27, 28),
                   leaf_count          |-> SubSeq(buf, 29, 30),
                   solid               |-> buf[31],
                   skin                |-> SubSeq(buf, 32, 35),
                   fade_min_distance   |-> SubSeq(buf, 36, 39),
                   fade_max_distance   |-> SubSeq(buf, 40, 43),
                   lighting_origin     |-> Vec3(buf, 43),
                   forced_fade_scale   |-> SubSeq(buf, 56, 59),
                   min_dx_level        |-> SubSeq(buf, 60, 61),
                   max_dx_level        |-> SubSeq(buf, 62, 63),
                   flags               |-> SubSeq(buf, 64, 67),
                   lightmap_resolution |-> <<SubSeq(buf, 68, 69), SubSeq(buf, 70, 71)>>]]

\* #[derive(BinRead)] struct StaticPropLumpV10, read at the start of buf
ReadStaticPropLumpV10(buf) ==
    IF Len(buf) <= SolidAt THEN [ok |-> FALSE, err |-> WithContext(IoError)]
    ELSE IF buf[SolidAt + 1] > SolidTypeLast
    THEN [ok |-> FALSE, err |-> WithContext([e |-> "NoVariantMatch"])]
    ELSE IF Len(buf) < SizeV10 THEN [ok |-> FALSE, err |-> WithContext(IoError)]
    ELSE [ok |-> TRUE, size |-> SizeV10,
          val |-> [origin              |-> Vec3(buf, 0),
                   angles              |-> Vec3(buf, 12),
                   prop_type           |-> SubSeq(buf, 25, 26),
                   first_leaf          |-> SubSeq(buf, 27, 28),
                   leaf_count          |-> SubSeq(buf, 29, 30),
                   solid               |-> buf[31],
                   skin                |-> SubSeq(buf, 33, 36),
                   fade_min_distance   |-> SubSeq(buf, 37, 40),
                   fade_max_distance   |-> SubSeq(buf, 41, 44),
                   lighting_origin     |-> Vec3(buf, 44),
                   forced_fade_scale   |-> SubSeq(buf, 57, 60),
                   min_dx_level        |-> SubSeq(buf, 61, 62),
                   max_dx_level        |-> SubSeq(buf, 63, 64),
                   flags               |-> SubSeq(buf, 65, 68),
                   lightmap_resolution |-> <<SubSeq(buf, 69, 70), SubSeq(buf, 71, 72)>>]]

\* impl From<StaticPropLumpV6> for StaticPropLump
FromV6(from) ==
    [origin              |-> from.origin,
     angles              |-> from.angles,
     prop_type           |-> from.prop_type,
     first_leaf          |-> from.first_leaf,
     leaf_count          |-> from.leaf_count,
     solid               |-> from.solid,
     skin                |-> from.skin,
     fade_min_distance   |-> from.fade_min_distance,
     fade_max_distance   |-> from.fade_max_distance,
     lighting_origin     |-> from.lighting_origin,
     forced_fade_scale   |-> from.forced_fade_scale,
     min_dx_level        |-> from.min_dx_level,
     max_dx_level        |-> from.max_dx_level,
     flags               |-> FlagsFromV6(from.flags),
     lightmap_resolution |-> <<LE(0, 2), LE(0, 2)>>]

\* impl From<StaticPropLumpV10> for StaticPropLump
FromV10(from) ==
    [origin              |-> from.origin,
     angles              |-> from.angles,
     prop_type           |-> from.prop_type,
     first_leaf          |-> from.first_leaf,
     leaf_count          |-> from.leaf_count,
     solid               |-> from.solid,
     skin                |-> from.skin,
     fade_min_distance   |-> from.fade_min_distance,
     fade_max_distance   |-> from.fade_max_distance,
     lighting_origin     |-> from.lighting_origin,
     forced_fade_scale   |-> from.forced_fade_scale,
     min_dx_level        |-> from.min_dx_level,
     max_dx_level        |-> from.max_dx_level,
     flags               |-> from.flags,
     lightmap_resolution |-> from.lightmap_resolution]

\* impl BinRead for StaticPropLump: read_options(reader, endian, (version,))
StaticPropLump_read_options(buf, ver) ==
    IF ver = 6 THEN
        LET r == ReadStaticPropLumpV6(buf)
        IN IF r.ok THEN [ok |-> TRUE, size |-> r.size, val |-> FromV6(r.val)] ELSE r
    ELSE IF ver \in {7, 9, 10} THEN
        LET r == ReadStaticPropLumpV10(buf)
        IN IF r.ok THEN [ok |-> TRUE, size |-> r.size, val |-> FromV10(r.val)] ELSE r
    ELSE [ok |-> FALSE,
          err |-> [e |-> "Custom",
                   err |-> [type |-> "UnsupportedLumpVersion",
                            lump_type |-> "static props", version |-> ver]]]

----------------------------------------------------------------------------
(* The static-prop game lump (src/src/data/game.rs)                        *)

FixedStringSize == 128

\* `entries as usize` elements are read one after the other.  A count that
\* is negative as an i32 becomes a usize above any buffer length: the reads
\* then go on until one of them fails, as they do for Len(buf) + 1 elements.
ElementCount(entries, buf) ==
    IF FitsNat(I32AsUsize(entries)) THEN ToNat(entries) ELSE Len(buf) + 1

\* FixedString<128>: a null-terminated string in a fixed-width field; the
\* bytes before the terminator must be UTF-8 (here: ASCII)
ReadFixedString(buf, pos) ==
    IF Len(buf) < pos + FixedStringSize THEN [ok |-> FALSE, err |-> IoError]
    ELSE LET field == SubSeq(buf, pos + 1, pos + FixedStringSize)
             nul   == {i \in 1..FixedStringSize : field[i] = 0}
             bad   == [e |-> "Custom", err |-> [type |-> "StringError"]]
         IN IF nul = {} THEN [ok |-> FALSE, err |-> bad]
            ELSE LET end == CHOOSE i \in nul : \A j \in nul : i <= j
                 IN IF \E j \in 1..(end - 1) : field[j] >= 128
                    THEN [ok |-> FALSE, err |-> bad]
                    ELSE [ok |-> TRUE]

RECURSIVE ReadNames(_, _, _)
ReadNames(buf, pos, n) ==
    IF n = 0 THEN [ok |-> TRUE, pos |-> pos]
    ELSE LET r == ReadFixedString(buf, pos)
         IN IF r.ok THEN ReadNames(buf, pos + FixedStringSize, n - 1) ELSE r

\* #[derive(BinRead)] struct StaticPropDictLump
ReadStaticPropDictLump(buf, pos) ==
    LET entries == ReadU32(buf, pos)
    IN IF ~entries.ok THEN [ok |-> FALSE, err |-> WithContext(entries.err)]
       ELSE LET r == ReadNames(buf, pos + 4, ElementCount(entries.val, buf))
            IN IF r.ok THEN [ok |-> TRUE, pos |-> r.pos, entries |-> entries.val]
               ELSE [ok |-> FALSE, err |-> WithContext(r.err)]

\* #[derive(BinRead)] struct StaticPropLeafLump
ReadStaticPropLeafLump(buf, pos) ==
    LET entries == ReadU32(buf, pos)
    IN IF ~entries.ok THEN [ok |-> FALSE, err |-> WithContext(entries.err)]
       ELSE LET n == ElementCount(entries.val, buf)
            IN IF Len(buf) < pos + 4 + 2 * n
               THEN [ok |-> FALSE, err |-> WithContext(IoError)]
               ELSE [ok |-> TRUE, pos |-> pos + 4 + 2 * n, entries |-> entries.val]

\* Vec<StaticPropLump> with VecArgs{count, inner: (version,)}
RECURSIVE ReadProps(_, _, _, _)
ReadProps(buf, pos, n, ver) ==
    IF n = 0 THEN [ok |-> TRUE, pos |-> pos, props |-> <<>>]
    ELSE LET r == StaticPropLump_read_options(Drop(buf, pos), ver)
         IN IF ~r.ok THEN r
            ELSE LET rest == ReadProps(buf, pos + r.size, n - 1, ver)
                 IN IF rest.ok
                    THEN [ok |-> TRUE, pos |-> rest.pos, props |-> <<r.val>> \o rest.props]
                    ELSE rest

\* #[derive(BinRead)] #[br(import(version: u16))] struct StaticPropLumps
ReadStaticPropLumps(buf, pos, ver) ==
    LET entries == ReadU32(buf, pos)
    IN IF ~entries.ok THEN [ok |-> FALSE, err |-> WithContext(entries.err)]
       ELSE LET r == ReadProps(buf, pos + 4, ElementCount(entries.val, buf), ver)
            IN IF r.ok THEN [ok |-> TRUE, entries |-> entries.val, props |-> r.props]
               ELSE [ok |-> FALSE, err |-> WithContext(r.err)]

\* #[derive(BinRead)] #[br(import(version: u16))] struct PropStaticGameLump
ReadPropStaticGameLump(buf, ver) ==
    LET dict == ReadStaticPropDictLump(buf, 0)
    IN IF ~dict.ok THEN [ok |-> FALSE, err |-> WithContext(dict.err)]
       ELSE LET leaf == ReadStaticPropLeafLump(buf, dict.pos)
            IN IF ~leaf.ok THEN [ok |-> FALSE, err |-> WithContext(leaf.err)]
               ELSE LET props == ReadStaticPropLumps(buf, leaf.pos, ver)
                    IN IF ~props.ok THEN [ok |-> FALSE, err |-> WithContext(props.err)]
                       ELSE [ok |-> TRUE,
                             val |-> [dict |-> dict.entries, leaf |-> leaf.entries,
                                      props |-> props.props]]

\* i32::from_be_bytes(*b"sprp")
PropStaticGameLumpID == 115 * 16777216 + 112 * 65536 + 114 * 256 + 112

\* GameLumpFlags::COMPRESSED
COMPRESSED == 1

\* GameLumpFlags::contains
FlagsContain(flags, flag) == BitAnd(flags, flag) = flag

GameLumpOutOfBounds(lump) == Err([kind |-> "GameLumpOutOfBounds", entry |-> lump])

\* the slice taken by get_game_lump_data: lumps is the directory, i the
\* 0-based index of lump in it
ResolveSpan(lumps, i, lump, buf) ==
    IF FlagsContain(lump.flags, COMPRESSED) THEN
        IF i + 1 >= Len(lumps)
        THEN [res |-> GameLumpOutOfBounds(lump), overflow |-> FALSE]
        ELSE LET next_lump       == lumps[i + 2]
                 compressed_size == I32Sub(next_lump.offset, lump.offset)
                 end             == I32Add(lump.offset, compressed_size.val)
                 raw             == SliceGet(buf, I32AsUsize(lump.offset), I32AsUsize(end.val))
             IN IF compressed_size.overflow /\ overflowChecks
                THEN [res |-> Panic("attempt to subtract with overflow"), overflow |-> TRUE]
                ELSE IF end.overflow /\ overflowChecks
                THEN [res |-> Panic("attempt to add with overflow"), overflow |-> TRUE]
                ELSE [res |-> IF raw.tag = "None" THEN GameLumpOutOfBounds(lump) ELSE raw,
                      overflow |-> compressed_size.overflow \/ end.overflow]
    ELSE LET end == I32Add(lump.offset, lump.length)
             raw == SliceGet(buf, I32AsUsize(lump.offset), I32AsUsize(end.val))
         IN IF end.overflow /\ overflowChecks
            THEN [res |-> Panic("attempt to add with overflow"), overflow |-> TRUE]
            ELSE [res |-> IF raw.tag = "None" THEN GameLumpOutOfBounds(lump) ELSE raw,
                  overflow |-> end.overflow]

Zeros(n) == [i \in 1..n |-> 0]

\* get_game_lump_data padding the bytes of uncompressed entries too
get_game_lump_data_pad_all(lumps, i, lump, buf) ==
    LET span == ResolveSpan(lumps, i, lump, buf)
    IN IF span.res.tag # "Some" THEN [res |-> span.res, span |-> span]
       ELSE IF FlagsContain(lump.flags, COMPRESSED) THEN
           LET output == lzma_decompress_with_header(span.res.bytes, I32AsUsize(lump.length))
           IN IF output.tag # "Ok" THEN [res |-> output, span |-> span]
              ELSE [res |-> [tag |-> "Ok", cow |-> "Owned", bytes |-> output.bytes \o Zeros(8)],
                    span |-> span]
       ELSE [res |-> [tag |-> "Ok", cow |-> "Owned", bytes |-> span.res.bytes \o Zeros(8)],
             span |-> span]

\* GameLumpHeader::get_game_lump_data; span records the slice it took
get_game_lump_data(lumps, i, lump, buf) ==
    LET span == ResolveSpan(lumps, i, lump, buf)
    IN IF span.res.tag # "Some" THEN [res |-> span.res, span |-> span]
       ELSE IF FlagsContain(lump.flags, COMPRESSED) THEN
           LET output == lzma_decompress_with_header(span.res.bytes, I32AsUsize(lump.length))
           IN IF output.tag # "Ok" THEN [res |-> output, span |-> span]
              ELSE [res |-> [tag |-> "Ok", cow |-> "Owned", bytes |-> output.bytes \o Zeros(8)],
                    span |-> span]
       ELSE [res |-> [tag |-> "Ok", cow |-> "Borrowed", bytes |-> span.res.bytes],
             span |-> span]

\* a scan that keeps the last match instead of stopping at the first
RECURSIVE FindIndex_last(_, _, _)
FindIndex_last(lumps, id, i) ==
    IF i >= Len(lumps) THEN -1
    ELSE LET later == FindIndex_last(lumps, id, i + 1)
         IN IF later # -1 THEN later
            ELSE IF lumps[i + 1].id = id THEN i
            ELSE -1

\* lumps.iter().enumerate().find(|(_, lump)| lump.id == id): the 0-based
\* index of the first match at or after i, or -1
RECURSIVE FindIndex(_, _, _)
FindIndex(lumps, id, i) ==
    IF i >= Len(lumps) THEN -1
    ELSE IF lumps[i + 1].id = id THEN i
    ELSE FindIndex(lumps, id, i + 1)

\* GameLumpHeader::find::<PropStaticGameLump>
find(lumps, buf) ==
    LET i == FindIndex(lumps, PropStaticGameLumpID, 0)
    IN IF i = -1 THEN [tag |-> "None"]
       ELSE LET lump == lumps[i + 1]
                d    == get_game_lump_data(lumps, i, lump, buf)
            IN IF d.res.tag = "Panic"
               THEN [tag |-> "Panic", index |-> i, span |-> d.span, msg |-> d.res.msg]
               ELSE IF d.res.tag = "Err"
               THEN [tag |-> "Some", index |-> i, span |-> d.span, res |-> d.res]
               ELSE LET r == ReadPropStaticGameLump(d.res.bytes, lump.version)
                    IN [tag |-> "Some", index |-> i, span |-> d.span, read |-> d.res,
                        res |-> IF r.ok THEN [tag |-> "Ok", val |-> r.val]
                                ELSE FromBinrwError(r.err)]

----------------------------------------------------------------------------
(* Inputs of the BspFile specification                                     *)

MaxCalls == 2

Nil == [tag |-> "Nil"]

Magic == <<86, 66, 83, 80>>

DirectoryEnd == 8 + NumLumps * LumpEntrySize

\* a compressed frame holding the runs of stream
Frame(stream, uncompressed) == U32(Len(stream)) \o U32(uncompressed) \o <<93>> \o stream

\* the bytes after the directory: a frame that decodes to 7, 7, 7
Payload == Frame(<<3, 7>>, 3)

FileLen == DirectoryEnd + Len(Payload)

Entry(offset, length, ident) ==
    [offset |-> offset, length |-> length, ident |-> ident, version |-> U32(0)]

ZeroEntry == Entry(U32(0), U32(0), U32(0))

U32Max == <<255, 255, 255, 255>>

EntrySamples ==
    { ZeroEntry,
      Entry(U32(0), U32(8), U32(0)),
      Entry(U32(DirectoryEnd), U32(Len(Payload)), U32(0)),
      Entry(U32(DirectoryEnd), U32(Len(Payload)), U32(3)),
      Entry(U32(DirectoryEnd), U32(Len(Payload)), U32(4)),
      Entry(U32(DirectoryEnd), U32(4), U32(3)),
      Entry(U32(FileLen), U32(0), U32(0)),
      Entry(U32(FileLen - 1), U32(2), U32(0)),
      Entry(U32(FileLen + 1), U32(0), U32(0)),
      Entry(U32(0), U32(FileLen + 1), U32(7)),
      Entry(U32Max, U32(1), U32(0)),
      Entry(<<0, 0, 0, 128>>, <<0, 0, 0, 128>>, U32(0)),
      Entry(U32Max, U32Max, U32Max) }

EntryBytes(e) == e.offset \o e.length \o e.ident \o e.version

RECURSIVE DirectoryBytes(_, _)
DirectoryBytes(entries, k) ==
    IF k = NumLumps THEN <<>>
    ELSE EntryBytes(entries[k]) \o DirectoryBytes(entries, k + 1)

\* the lump kinds the caller asks for: Entities, Planes, GameLump and
\* DisplacementMultiBlend
CalledKinds == {0, 1, 35, 63}

FileOf(preamble, a, b) ==
    preamble
    \o DirectoryBytes([k \in LumpType |->
                          IF k = 0 THEN a ELSE IF k = 35 THEN b ELSE ZeroEntry], 0)
    \o Payload

Preambles ==
    { Magic \o U32(EXPECTED_VERSION),
      Magic \o U32(19),
      Magic \o <<20, 0, 0, 1>>,
      Magic \o <<20, 1, 0, 0>>,
      <<86, 66, 83, 81>> \o U32(EXPECTED_VERSION),
      <<80, 83, 66, 86>> \o U32(EXPECTED_VERSION),
      <<118, 98, 115, 112>> \o U32(21),
      <<0, 0, 0, 0, 0, 0, 0, 0>> }

FileBuffers ==
    { FileOf(Magic \o U32(EXPECTED_VERSION), a, b) :
          a \in EntrySamples,
          b \in {ZeroEntry, Entry(U32(DirectoryEnd), U32(Len(Payload)), U32(3)),
                 Entry(U32(FileLen - 1), U32(2), U32(0))} }
    \cup { FileOf(p, ZeroEntry, ZeroEntry) : p \in Preambles }
    \cup { SubSeq(FileOf(p, ZeroEntry, ZeroEntry), 1, n) :
              p \in Preambles, n \in {0, 3, 4, 7, 8, 9, DirectoryEnd - 1, DirectoryEnd} }

----------------------------------------------------------------------------
(* The BspFile specification: a caller opens a buffer and asks for lumps   *)

InitFile ==
    /\ overflowChecks \in BOOLEAN
    /\ backtrace \in BOOLEAN
    /\ data \in FileBuffers
    /\ pc = "start"
    /\ bsp = Nil
    /\ log = <<>>
    /\ header = Nil
    /\ found = Nil
    /\ fields = Nil
    /\ version = 0
    /\ prop = Nil

\* let file = BspFile::new(data)
Open ==
    /\ pc = "start"
    /\ bsp' = BspFile_new(data)
    /\ pc' = IF bsp'.tag = "Ok" THEN "open" ELSE "failed"
    /\ UNCHANGED <<overflowChecks, backtrace, data, log, header, found, fields, version, prop>>

\* a get_lump that gives up on the whole file once a lump fails to decode
GetLump_poison(kind) ==
    /\ pc = "open"
    /\ Len(log) < MaxCalls
    /\ log' = Append(log, [kind |-> kind, result |-> get_lump(bsp.file, kind)])
    /\ bsp' = IF get_lump(bsp.file, kind).tag = "Ok" THEN bsp
              ELSE [bsp EXCEPT !.file.data = <<>>]
    /\ UNCHANGED <<overflowChecks, backtrace, data, pc, header, found, fields, version, prop>>

\* file.get_lump(kind): takes &self, the BspFile is left as it is
GetLump(kind) ==
    /\ pc = "open"
    /\ Len(log) < MaxCalls
    /\ log' = Append(log, [kind |-> kind, result |-> get_lump(bsp.file, kind)])
    /\ UNCHANGED <<overflowChecks, backtrace, data, pc, bsp, header, found, fields, version, prop>>

NextFile == Open \/ \E kind \in CalledKinds : GetLump(kind)

SpecFile == InitFile /\ [][NextFile]_vars

----------------------------------------------------------------------------
(* Inputs of the game-lump specification                                   *)

MaxEntries == 3

\* a static-prop record in the extended layout (72 bytes); its first 64
\* bytes are a record in the version-6 layout.  solid is Bbox.
SampleRecord == [i \in 1..SizeV10 |-> IF i = SolidAt + 1 THEN 2 ELSE i]

\* no names, one leaf, one prop
OnePropPayload == I32(0) \o I32(1) \o <<5, 0>> \o I32(1) \o SampleRecord

\* no names, no leaves, no props
EmptyPayload == I32(0) \o I32(0) \o I32(0)

AtFrameA == 4

AtFrameB == AtFrameA + Len(Frame(<<12, 0>>, 12))

AtEmpty == AtFrameB + Len(Frame(<<8, 0>>, 8))

AtOneProp == AtEmpty + Len(EmptyPayload)

\* the source buffer: frame A decodes to EmptyPayload, frame B to its first
\* 8 bytes only
GameBuffer ==
    <<1, 2, 3, 4>> \o Frame(<<12, 0>>, 12) \o Frame(<<8, 0>>, 8)
    \o EmptyPayload \o OnePropPayload

OtherID == 1

GameLumpOf(id, flags, ver, offset, length) ==
    [id |-> id, flags |-> flags, version |-> ver,
     offset |-> I32(offset), length |-> I32(length)]

GameLumpSamples ==
    { GameLumpOf(PropStaticGameLumpID, 1, 10, AtFrameA, 12),
      GameLumpOf(PropStaticGameLumpID, 1, 6, AtFrameB, 8),
      GameLumpOf(PropStaticGameLumpID, 0, 6, AtOneProp, Len(OnePropPayload)),
      GameLumpOf(PropStaticGameLumpID, 0, 10, AtOneProp, Len(OnePropPayload)),
      GameLumpOf(PropStaticGameLumpID, 0, 99, AtOneProp, Len(OnePropPayload)),
      GameLumpOf(PropStaticGameLumpID, 0, 99, AtEmpty, Len(EmptyPayload)),
      GameLumpOf(PropStaticGameLumpID, 0, 7, AtOneProp, -3),
      GameLumpOf(PropStaticGameLumpID, 0, 9, 2147483647, 1),
      GameLumpOf(PropStaticGameLumpID, 1, 6, -2147483647 - 1, 12),
      GameLumpOf(OtherID, 0, 0, AtFrameB, 0),
      GameLumpOf(OtherID, 0, 0, AtEmpty, Len(EmptyPayload)),
      GameLumpOf(OtherID, 1, 0, -1, -1) }

RECURSIVE SeqsUpTo(_, _)
SeqsUpTo(S, n) ==
    IF n = 0 THEN {<<>>}
    ELSE LET shorter == SeqsUpTo(S, n - 1)
         IN shorter \cup {Append(q, e) : q \in shorter, e \in S}

----------------------------------------------------------------------------
(* The game-lump specification: a caller looks up the static props         *)

InitGame ==
    /\ overflowChecks \in BOOLEAN
    /\ backtrace \in BOOLEAN
    /\ data = GameBuffer
    /\ pc = "start"
    /\ bsp = Nil
    /\ log = <<>>
    /\ header \in SeqsUpTo(GameLumpSamples, MaxEntries)
    /\ found = Nil
    /\ fields = Nil
    /\ version = 0
    /\ prop = Nil

\* header.find::<PropStaticGameLump>(data)
Find ==
    /\ pc = "start"
    /\ found' = find(header, data)
    /\ pc' = "done"
    /\ UNCHANGED <<overflowChecks, backtrace, data, bsp, log, header, fields, version, prop>>

NextGame == Find

SpecGame == InitGame /\ [][NextGame]_vars

----------------------------------------------------------------------------
(* Inputs of the static-prop record specification                          *)

\* the logical values of a record: every field's bytes, the 8-bit flag set,
\* and what the extended layout adds (pad byte, lightmap resolution)
FieldsOf(base, solid, flags, pad) ==
    [origin            |-> <<LE(base + 1, 4), LE(base + 2, 4), LE(base + 3, 4)>>,
     angles            |-> <<LE(1119092736 + base, 4), LE(base + 5, 4), LE(base + 6, 4)>>,
     prop_type         |-> LE(base + 7, 2),
     first_leaf        |-> LE(base + 8, 2),
     leaf_count        |-> LE(base + 9, 2),
     solid             |-> solid,
     flags             |-> flags,
     skin              |-> I32(base - 10),
     fade_min_distance |-> LE(base + 11, 4),
     fade_max_distance |-> LE(base + 12, 4),
     lighting_origin   |-> <<LE(base + 13, 4), LE(base + 14, 4), LE(base + 15, 4)>>,
     forced_fade_scale |-> LE(1065353216, 4),
     min_dx_level      |-> LE(base + 17, 2),
     max_dx_level      |-> LE(base + 18, 2),
     pad               |-> pad,
     lightmap          |-> <<LE(base + 19, 2), LE(base + 20, 2)>>]

FieldSamples ==
    { FieldsOf(base, solid, flags, pad) :
          base \in {0, 4660}, solid \in {0, 7, 8},
          flags \in {0, 1, 85, 128, 255}, pad \in {0, 170} }

Flat3(v) == v[1] \o v[2] \o v[3]

\* the record in the version-6 layout: flags is one byte right after solid
EncodeV6(f) ==
    Flat3(f.origin) \o Flat3(f.angles) \o f.prop_type \o f.first_leaf \o f.leaf_count
    \o <<f.solid>> \o <<f.flags>>
    \o f.skin \o f.fade_min_distance \o f.fade_max_distance
    \o Flat3(f.lighting_origin) \o f.forced_fade_scale
    \o f.min_dx_level \o f.max_dx_level

\* the record in the version-7/9/10 layout: a pad byte after solid, 4-byte
\* flags after max_dx_level, then the two lightmap resolutions
EncodeV10(f) ==
    Flat3(f.origin) \o Flat3(f.angles) \o f.prop_type \o f.first_leaf \o f.leaf_count
    \o <<f.solid>> \o <<f.pad>>
    \o f.skin \o f.fade_min_distance \o f.fade_max_distance
    \o Flat3(f.lighting_origin) \o f.forced_fade_scale
    \o f.min_dx_level \o f.max_dx_level
    \o <<f.flags, 0, 0, 0>> \o f.lightmap[1] \o f.lightmap[2]

----------------------------------------------------------------------------
(* The static-prop record specification: one record read in both layouts   *)

InitProp ==
    /\ overflowChecks \in BOOLEAN
    /\ backtrace \in BOOLEAN
    /\ data = <<>>
    /\ pc = "start"
    /\ bsp = Nil
    /\ log = <<>>
    /\ header = Nil
    /\ found = Nil
    /\ fields \in FieldSamples
    /\ version \in {7, 9, 10}
    /\ prop = [v6 |-> Nil, ext |-> Nil]

\* StaticPropLump::read_options(reader, endian, (6,))
ReadV6 ==
    /\ prop.v6 = Nil
    /\ prop' = [prop EXCEPT !.v6 = StaticPropLump_read_options(EncodeV6(fields), 6)]
    /\ UNCHANGED <<overflowChecks, backtrace, data, pc, bsp, log, header, found, fields, version>>

\* StaticPropLump::read_options(reader, endian, (version,)), version 7, 9 or 10
ReadExtended ==
    /\ prop.ext = Nil
    /\ prop' = [prop EXCEPT !.ext = StaticPropLump_read_options(EncodeV10(fields), version)]
    /\ UNCHANGED <<overflowChecks, backtrace, data, pc, bsp, log, header, found, fields, version>>

NextProp == ReadV6 \/ ReadExtended

SpecProp == InitProp /\ [][NextProp]_vars

----------------------------------------------------------------------------
(* Claims about BspFile                                                    *)

HeaderOf(buf) == [v |-> buf[1], b |-> buf[2], s |-> buf[3], p |-> buf[4]]

\* 'V', 'B', 'S', 'P' and the little-endian version 0x14
ValidPrefix == <<86, 66, 83, 80, 20, 0, 0, 0>>

\* C1: BspFile::new returns a BspFile only for a buffer that starts with the
\* 8 bytes "VBSP", 0x14 LE; every other 8-byte prefix gives UnexpectedHeader
\* carrying the 4 header bytes read.
C1_HeaderGate ==
    pc # "start" =>
        /\ bsp.tag = "Ok" => Len(data) >= 8 /\ SubSeq(data, 1, 8) = ValidPrefix
        /\ (Len(data) >= 8 /\ SubSeq(data, 1, 8) # ValidPrefix) =>
               bsp = Err([kind |-> "UnexpectedHeader", header |-> HeaderOf(data)])

\* the magic is right and only the version is wrong
C1_Witness ==
    /\ pc = "failed"
    /\ Len(data) >= 8
    /\ SubSeq(data, 1, 4) = <<86, 66, 83, 80>>
    /\ SubSeq(data, 5, 8) # <<20, 0, 0, 0>>
    /\ bsp = Err([kind |-> "UnexpectedHeader", header |-> HeaderOf(data)])

\* offset + length > n, for a buffer length n below 2^24
Exceeds(entry, n) ==
    ~ /\ entry.offset[4] = 0
      /\ entry.length[4] = 0
      /\ ToNat(entry.offset) + ToNat(entry.length) <= n

\* C2: a directory entry with offset + length beyond the buffer makes
\* get_lump fail with LumpOutOfBounds carrying the entry; get_lump never
\* panics and never returns bytes from outside the buffer.
C2_OutOfBounds ==
    \A i \in 1..Len(log) :
        LET entry == bsp.file.directories[log[i].kind]
            r     == log[i].result
        IN /\ Exceeds(entry, Len(data)) =>
                  r = Err([kind |-> "LumpOutOfBounds", entry |-> entry])
           /\ r.tag # "Panic"
           /\ r.tag = "Ok" => r.start <= r.end /\ r.end <= Len(data)

\* offset and length are both u32::MAX: their sum does not fit 32 bits
C2_Witness ==
    \E i \in 1..Len(log) :
        LET entry == bsp.file.directories[log[i].kind]
        IN /\ entry.offset = <<255, 255, 255, 255>>
           /\ entry.length = <<255, 255, 255, 255>>
           /\ log[i].result = Err([kind |-> "LumpOutOfBounds", entry |-> entry])

\* C3: an entry with ident 0 whose range lies inside the buffer gives the
\* Borrowed case holding exactly buffer[offset..offset+length]; Owned is
\* returned only for a nonzero ident.
C3_BorrowedVerbatim ==
    \A i \in 1..Len(log) :
        LET entry == bsp.file.directories[log[i].kind]
            r     == log[i].result
        IN /\ (IsZero(entry.ident) /\ ~Exceeds(entry, Len(data))) =>
                  /\ r.tag = "Ok" /\ r.cow = "Borrowed"
                  /\ r.bytes = SubSeq(data, ToNat(entry.offset) + 1,
                                      ToNat(entry.offset) + ToNat(entry.length))
                  /\ Len(r.bytes) = ToNat(entry.length)
           /\ (r.tag = "Ok" /\ r.cow = "Owned") => ~IsZero(entry.ident)

\* the whole payload after the directory is returned as it is stored
C3_Witness ==
    \E i \in 1..Len(log) :
        /\ log[i].result.tag = "Ok"
        /\ log[i].result.cow = "Borrowed"
        /\ log[i].result.bytes = <<2, 0, 0, 0, 3, 0, 0, 0, 93, 3, 7>>

HasDirectory(buf) == Len(buf) >= 8 + 64 * 16 /\ SubSeq(buf, 1, 8) = ValidPrefix

\* C8: BspFile::new succeeds whatever the directory entries hold; a bad
\* entry is reported only by the get_lump call for its kind; no call changes
\* the BspFile, so each call returns what it returns on the freshly opened
\* file, whatever calls came before.
C8_LazyIndependent ==
    /\ (pc # "start" /\ HasDirectory(data)) => pc = "open"
    /\ pc = "open" =>
           /\ bsp = BspFile_new(data)
           /\ \A i \in 1..Len(log) :
                  log[i].result = get_lump(BspFile_new(data).file, log[i].kind)

\* a lump is read after the call for another kind failed
C8_Witness ==
    /\ Len(log) >= 2
    /\ log[1].result.tag = "Err"
    /\ log[1].result.err.kind = "LumpOutOfBounds"
    /\ log[2].kind # log[1].kind
    /\ log[2].result.tag = "Ok"
    /\ log[2].result.cow = "Owned"

----------------------------------------------------------------------------
(* Claims about the game-lump directory                                    *)

\* the value of an i32
ValI32(a) ==
    IF a[4] >= 128
    THEN ((a[1] + 256 * a[2] + 65536 * a[3] + 16777216 * (a[4] - 128)) - 2147483647) - 1
    ELSE a[1] + 256 * a[2] + 65536 * a[3] + 16777216 * a[4]

\* the 1-based positions of the entries tagged "sprp" = 0x73707270
Matches == {j \in 1..Len(header) : header[j].id = 1936749168}

First == CHOOSE j \in Matches : \A k \in Matches : j <= k

IsCompressed(lump) == lump.flags % 2 = 1

\* [from, to) is a span of a buffer of n bytes
Inside(from, to, n) == 0 <= from /\ from <= to /\ to <= n

Looked == pc = "done" /\ Matches # {}

\* C4 (as stated): for a compressed entry at index i the decompressor gets
\* exactly data[entry.offset .. lumps[i+1].offset]; if the entry is the last
\* one, or that span is not inside the buffer, find fails with
\* GameLumpOutOfBounds carrying the entry.
C4_CompressedSpan ==
    (Looked /\ IsCompressed(header[First])) =>
        LET entry == header[First]
            from  == ValI32(entry.offset)
        IN IF First = Len(header)
              \/ ~Inside(from, ValI32(header[First + 1].offset), Len(data))
           THEN /\ found.tag = "Some"
                /\ found.res = Err([kind |-> "GameLumpOutOfBounds", entry |-> entry])
           ELSE /\ found.tag = "Some"
                /\ found.span.res.tag = "Some"
                /\ found.span.res.bytes =
                       SubSeq(data, from + 1, ValI32(header[First + 1].offset))
                /\ Len(found.span.res.bytes) =
                       ValI32(header[First + 1].offset) - from

\* C5: the bytes handed to the record reader are the decompressed output
\* followed by exactly 8 zero bytes (entry.length + 8 bytes, Owned) for a
\* compressed entry, and exactly data[offset .. offset+length] (entry.length
\* bytes, Borrowed) for an uncompressed one.
C5_PaddingOnlyCompressed ==
    (Looked /\ found.tag = "Some" /\ found.span.res.tag = "Some") =>
        LET entry == header[First]
            from  == ValI32(entry.offset)
            len   == ValI32(entry.length)
        IN IF IsCompressed(entry)
           THEN LET out == lzma_decompress_with_header(found.span.res.bytes,
                                                       I32AsUsize(entry.length))
                IN out.tag = "Ok" =>
                       /\ found.read.cow = "Owned"
                       /\ Len(found.read.bytes) = len + 8
                       /\ SubSeq(found.read.bytes, 1, len) = out.bytes
                       /\ SubSeq(found.read.bytes, len + 1, len + 8)
                              = <<0, 0, 0, 0, 0, 0, 0, 0>>
           ELSE /\ found.read.cow = "Borrowed"
                /\ Len(found.read.bytes) = len
                /\ found.read.bytes = SubSeq(data, from + 1, from + len)

\* a compressed entry whose decompressed bytes end before the prop count:
\* the reader finds the count in the padding
C5_Witness ==
    /\ Looked
    /\ IsCompressed(header[First])
    /\ ValI32(header[First].length) = 8
    /\ found.tag = "Some"
    /\ found.res.tag = "Ok"
    /\ Len(found.read.bytes) = 16

\* the uncompressed case: the whole one-prop payload is handed over as stored
C5_WitnessBorrowed ==
    /\ Looked
    /\ ~IsCompressed(header[First])
    /\ found.tag = "Some"
    /\ found.res.tag = "Ok"
    /\ found.read.cow = "Borrowed"
    /\ Len(found.read.bytes) = 86

Supported == {6, 7, 9, 10}

\* C6 (as stated): a static-prop lump whose entry declares a version other
\* than 6, 7, 9, 10 fails with LumpVersion("static props", version) for every
\* payload handed to the reader; versions 6, 7, 9, 10 never give that error.
C6_UnsupportedVersion ==
    (Looked /\ found.tag = "Some" /\ "read" \in DOMAIN found) =>
        IF header[First].version \notin Supported
        THEN found.res = Err([kind |-> "LumpVersion", lump_type |-> "static props",
                              version |-> header[First].version])
        ELSE ~(found.res.tag = "Err" /\ found.res.err.kind = "LumpVersion")

\* find with only the first match and the entry after it in the directory
FirstAlone ==
    find(SubSeq(header, First, IF First < Len(header) THEN First + 1 ELSE First), data)

\* C9: find decodes the entry with the lowest index tagged "sprp", and only
\* that one, also when decoding it fails; a compressed match is bounded by
\* the entry at its index + 1; with no tagged entry find returns None and
\* takes no slice of the source.
C9_FirstMatchWins ==
    pc = "done" =>
        IF Matches = {} THEN found = [tag |-> "None"]
        ELSE /\ found.tag # "None"
             /\ found.index = First - 1
             /\ found = [FirstAlone EXCEPT !.index = First - 1]
             /\ (found.tag = "Some" /\ found.span.res.tag = "Some"
                 /\ IsCompressed(header[First])) =>
                    found.span.res.end = ValI32(header[First + 1].offset)

\* two tagged entries: decoding the first fails, the second alone decodes
C9_Witness ==
    /\ pc = "done"
    /\ Cardinality(Matches) >= 2
    /\ found.tag = "Some"
    /\ found.res.tag = "Err"
    /\ \E j \in Matches :
           /\ j > First
           /\ find(<<header[j]>>, data).tag = "Some"
           /\ find(<<header[j]>>, data).res.tag = "Ok"

\* C10 (as stated): for arbitrary i32 offsets and lengths, resolving the
\* entry's span yields a span inside the buffer or GameLumpOutOfBounds, and
\* none of the i32 computations overflows.
C10_NoOverflow ==
    Looked =>
        /\ found.tag = "Some"
        /\ ~found.span.overflow
        /\ \/ found.span.res = Err([kind |-> "GameLumpOutOfBounds", entry |-> header[First]])
           \/ /\ found.span.res.tag = "Some"
              /\ Inside(found.span.res.start, found.span.res.end, Len(data))

----------------------------------------------------------------------------
(* Claims about static-prop records                                        *)

Shared ==
    {"origin", "angles", "prop_type", "first_leaf", "leaf_count", "solid", "skin",
     "fade_min_distance", "fade_max_distance", "lighting_origin",
     "forced_fade_scale", "min_dx_level", "max_dx_level"}

BothRead == prop.v6 # Nil /\ prop.ext # Nil

\* C7: the same logical values encoded in the version-6 layout and in the
\* version-7/9/10 layout decode to records equal in every shared field, each
\* holding the encoded value; the version-6 record has lightmap_resolution
\* [0, 0] and its flags are the 8-bit flag byte zero-extended.
C7_LayoutsAgree ==
    BothRead =>
        /\ prop.v6.ok = prop.ext.ok
        /\ prop.v6.ok =>
               /\ \A name \in Shared :
                      /\ prop.v6.val[name] = prop.ext.val[name]
                      /\ prop.v6.val[name] = fields[name]
               /\ prop.v6.val.flags = <<fields.flags, 0, 0, 0>>
               /\ prop.ext.val.flags = prop.v6.val.flags
               /\ prop.v6.val.lightmap_resolution = <<<<0, 0>>, <<0, 0>>>>
               /\ prop.ext.val.lightmap_resolution = fields.lightmap

\* all 8 flag bits set, a nonzero pad byte, both layouts decoded
C7_Witness ==
    /\ BothRead
    /\ prop.v6.ok
    /\ prop.ext.ok
    /\ fields.flags = 255
    /\ fields.pad # 0
    /\ prop.v6.val.flags = <<255, 0, 0, 0>>

----------------------------------------------------------------------------
(* Supporting properties (SpecGame): what remains of the refuted           *)
(* statements                                                              *)

\* the sizing rule of C4 holds in every run in which no i32 computation
\* overflows, and in every build without overflow checks
C4_WhenNoOverflow ==
    (Looked /\ (~overflowChecks \/ ~found.span.overflow)) => C4_CompressedSpan

\* with wrapping arithmetic the span is inside the buffer or the lookup
\* fails with GameLumpOutOfBounds
C10_WrappingBuild ==
    (Looked /\ ~overflowChecks) =>
        /\ found.tag = "Some"
        /\ \/ found.span.res = Err([kind |-> "GameLumpOutOfBounds", entry |-> header[First]])
           \/ /\ found.span.res.tag = "Some"
              /\ Inside(found.span.res.start, found.span.res.end, Len(data))

\* a supported version never gives LumpVersion; an unsupported one gives it
\* as soon as one record is read, unless the error arrives wrapped in a
\* backtrace, which the conversion turns into MalformedData
C6_PerRecord ==
    (Looked /\ found.tag = "Some" /\ "read" \in DOMAIN found) =>
        LET ver == header[First].version
        IN /\ ver \in Supported =>
                  ~(found.res.tag = "Err" /\ found.res.err.kind = "LumpVersion")
           /\ (ver \notin Supported /\ header[First].offset = I32(AtOneProp)) =>
                  /\ found.res.tag = "Err"
                  /\ found.res.err.kind = IF backtrace THEN "MalformedData" ELSE "LumpVersion"

====
